---- MODULE Spec2Model ----
(***************************************************************************)
(* CheckMate: requirement extraction, compliance analysis, report          *)
(* formatting, e-mail delivery and text recognition                        *)
(* (CheckMate2/utils/text_processor.py, utils/email_sender.py,             *)
(* CheckMate2/utils/image_processor.py, CheckMate2/app.py).                *)
(*                                                                         *)
(* A text is a sequence of atoms.  An atom is a one-character string       *)
(* (punctuation, a digit, a blank, a letter) or a word, which stands for a *)
(* run of letters and behaves as a letter everywhere.  The atoms used are  *)
(* free of the backslash and of the exponent letters of JSON numbers.      *)
(***************************************************************************)
EXTENDS Integers, Sequences, FiniteSets, TLC

VARIABLES
    fn, fn_in, fn_out, report, pc,  \* one call of a function: its argument and results
    env, session, trace             \* the application: environment, st.session_state,
                                    \* and what the last run of the script did

fnVars == <<fn, fn_in, fn_out, report, pc>>
appVars == <<env, session, trace>>
vars == <<fn, fn_in, fn_out, report, pc, env, session, trace>>

(***************************************************************************)
(* Bounds of the input sets.                                               *)
(***************************************************************************)
MaxJsonLen == 6
MaxLineLen == 4
MaxReqs == 2
MaxEntries == 2
MaxEmailLen == 7
MaxOcrLen == 4

(***************************************************************************)
(* Texts                                                                   *)
(***************************************************************************)
Whitespace == {" ", "\n"}
Digits == {"0", "1", "2", "3", "4", "5", "6", "7", "8", "9"}

TextsOver(chars, n) == UNION {[1..k -> chars] : k \in 0..n}

(* str.lstrip(chars): drops every leading character that is in chars *)
RECURSIVE lstrip(_, _)
lstrip(s, chars) ==
    IF s /= <<>> /\ Head(s) \in chars THEN lstrip(Tail(s), chars) ELSE s

RECURSIVE rstrip(_, _)
rstrip(s, chars) ==
    IF s /= <<>> /\ s[Len(s)] \in chars
    THEN rstrip(SubSeq(s, 1, Len(s) - 1), chars) ELSE s

(* str.strip(): whitespace off both ends *)
strip(s) == rstrip(lstrip(s, Whitespace), Whitespace)

(* str.split(sep): the pieces between the separators, empty pieces kept *)
RECURSIVE split(_, _, _)
split(s, sep, cur) ==
    IF s = <<>> THEN <<cur>>
    ELSE IF Head(s) = sep THEN <<cur>> \o split(Tail(s), sep, <<>>)
    ELSE split(Tail(s), sep, Append(cur, Head(s)))

(***************************************************************************)
(* JSON values.  One record shape for every kind:                          *)
(*   null, bool (text <<"true">> or <<"false">>), num (text the numeral),  *)
(*   str (text the characters), arr (items), obj (keys and items, in       *)
(*   insertion order, a repeated key keeping its place and the last value).*)
(***************************************************************************)
JNull == [kind |-> "null", text |-> <<>>, keys |-> <<>>, items |-> <<>>]
JBool(b) == [kind |-> "bool", text |-> <<IF b THEN "true" ELSE "false">>,
             keys |-> <<>>, items |-> <<>>]
JNum(t) == [kind |-> "num", text |-> t, keys |-> <<>>, items |-> <<>>]
JStr(t) == [kind |-> "str", text |-> t, keys |-> <<>>, items |-> <<>>]
JArr(vs) == [kind |-> "arr", text |-> <<>>, keys |-> <<>>, items |-> vs]
JObj(ks, vs) == [kind |-> "obj", text |-> <<>>, keys |-> ks, items |-> vs]

KeyIndex(ks, k) ==
    IF \E i \in 1..Len(ks) : ks[i] = k
    THEN CHOOSE i \in 1..Len(ks) : ks[i] = k
    ELSE 0

(* dict[k] = v *)
DictSet(d, k, v) ==
    LET i == KeyIndex(d.keys, k) IN
    IF i = 0 THEN JObj(Append(d.keys, k), Append(d.items, v))
    ELSE JObj(d.keys, [d.items EXCEPT ![i] = v])

(* the compact JSON text of a value: what an answer carrying it reads *)
RECURSIVE Dumps(_)
RECURSIVE DumpsItems(_)
RECURSIVE DumpsMembers(_, _)

Dumps(v) ==
    IF v.kind = "str" THEN <<"\"">> \o v.text \o <<"\"">>
    ELSE IF v.kind = "arr" THEN <<"[">> \o DumpsItems(v.items) \o <<"]">>
    ELSE IF v.kind = "obj" THEN <<"{">> \o DumpsMembers(v.keys, v.items) \o <<"}">>
    ELSE IF v.kind = "null" THEN <<"null">>
    ELSE v.text

DumpsItems(vs) ==
    IF vs = <<>> THEN <<>>
    ELSE IF Len(vs) = 1 THEN Dumps(vs[1])
    ELSE Dumps(vs[1]) \o <<",">> \o DumpsItems(Tail(vs))

DumpsMembers(ks, vs) ==
    IF ks = <<>> THEN <<>>
    ELSE LET m == <<"\"">> \o ks[1] \o <<"\"", ":">> \o Dumps(vs[1]) IN
         IF Len(ks) = 1 THEN m ELSE m \o <<",">> \o DumpsMembers(Tail(ks), Tail(vs))

(***************************************************************************)
(* json.loads: the decoder of the standard library, strict mode.           *)
(* A parse step yields [ok, val, pos]: pos is the index after the value.   *)
(***************************************************************************)
ParseFail == [ok |-> FALSE, val |-> JNull, pos |-> 0]
ParseOk(v, p) == [ok |-> TRUE, val |-> v, pos |-> p]

RECURSIVE SkipWs(_, _)
SkipWs(s, i) ==
    IF i <= Len(s) /\ s[i] \in Whitespace THEN SkipWs(s, i + 1) ELSE i

RECURSIVE DigitsEnd(_, _)
DigitsEnd(s, i) ==
    IF i <= Len(s) /\ s[i] \in Digits THEN DigitsEnd(s, i + 1) ELSE i

(* an optional minus, then 0 or a digit run not starting with 0, then an  *)
(* optional point with at least one digit: matched at i, greedily         *)
ParseNumber(s, i) ==
    LET j == IF i <= Len(s) /\ s[i] = "-" THEN i + 1 ELSE i
        intEnd == IF j <= Len(s) /\ s[j] = "0" THEN j + 1 ELSE DigitsEnd(s, j)
        fracEnd == IF intEnd <= Len(s) /\ s[intEnd] = "."
                      /\ DigitsEnd(s, intEnd + 1) > intEnd + 1
                   THEN DigitsEnd(s, intEnd + 1) ELSE intEnd
    IN  IF intEnd = j THEN ParseFail
        ELSE ParseOk(JNum(SubSeq(s, i, fracEnd - 1)), fracEnd)

(* the characters up to the closing quote; a raw newline is a control     *)
(* character and is rejected                                               *)
RECURSIVE ParseString(_, _, _)
ParseString(s, i, acc) ==
    IF i > Len(s) THEN ParseFail
    ELSE IF s[i] = "\"" THEN ParseOk(JStr(acc), i + 1)
    ELSE IF s[i] = "\n" THEN ParseFail
    ELSE ParseString(s, i + 1, Append(acc, s[i]))

RECURSIVE ParseValue(_, _)
RECURSIVE ParseArray(_, _, _)
RECURSIVE ParseObject(_, _, _)

ParseValue(s, i) ==
    IF i > Len(s) THEN ParseFail
    ELSE IF s[i] = "\"" THEN ParseString(s, i + 1, <<>>)
    ELSE IF s[i] = "{" THEN
        LET j == SkipWs(s, i + 1) IN
        IF j <= Len(s) /\ s[j] = "}" THEN ParseOk(JObj(<<>>, <<>>), j + 1)
        ELSE ParseObject(s, j, JObj(<<>>, <<>>))
    ELSE IF s[i] = "[" THEN
        LET j == SkipWs(s, i + 1) IN
        IF j <= Len(s) /\ s[j] = "]" THEN ParseOk(JArr(<<>>), j + 1)
        ELSE ParseArray(s, j, <<>>)
    ELSE IF s[i] = "null" THEN ParseOk(JNull, i + 1)
    ELSE IF s[i] = "true" THEN ParseOk(JBool(TRUE), i + 1)
    ELSE IF s[i] = "false" THEN ParseOk(JBool(FALSE), i + 1)
    ELSE ParseNumber(s, i)

(* i is at the start of an element *)
ParseArray(s, i, acc) ==
    LET e == ParseValue(s, i) IN
    IF ~e.ok THEN ParseFail
    ELSE LET j == SkipWs(s, e.pos) IN
         IF j > Len(s) THEN ParseFail
         ELSE IF s[j] = "]" THEN ParseOk(JArr(Append(acc, e.val)), j + 1)
         ELSE IF s[j] = "," THEN ParseArray(s, SkipWs(s, j + 1), Append(acc, e.val))
         ELSE ParseFail

(* i is at the opening quote of a key *)
ParseObject(s, i, acc) ==
    IF i > Len(s) \/ s[i] /= "\"" THEN ParseFail
    ELSE LET k == ParseString(s, i + 1, <<>>) IN
         IF ~k.ok THEN ParseFail
         ELSE LET c == SkipWs(s, k.pos) IN
              IF c > Len(s) \/ s[c] /= ":" THEN ParseFail
              ELSE LET e == ParseValue(s, SkipWs(s, c + 1)) IN
                   IF ~e.ok THEN ParseFail
                   ELSE LET j == SkipWs(s, e.pos)
                            d == DictSet(acc, k.val.text, e.val)
                        IN  IF j > Len(s) THEN ParseFail
                            ELSE IF s[j] = "}" THEN ParseOk(d, j + 1)
                            ELSE IF s[j] = "," THEN ParseObject(s, SkipWs(s, j + 1), d)
                            ELSE ParseFail

(* json.loads(text): [ok |-> FALSE] stands for JSONDecodeError *)
json_loads(s) ==
    LET r == ParseValue(s, SkipWs(s, 1)) IN
    IF r.ok /\ SkipWs(s, r.pos) > Len(s) THEN r ELSE ParseFail

(***************************************************************************)
(* The generative model's answer to one call: the call fails (network,     *)
(* auth, quota, a blocked answer without text), or it returns a text.      *)
(***************************************************************************)
CallFailed == [callOk |-> FALSE, text |-> <<>>]
Answer(t) == [callOk |-> TRUE, text |-> t]

(***************************************************************************)
(* TextProcessor.extract_requirements                                      *)
(***************************************************************************)
(* one line of the fallback: the five chained lstrip calls *)
StripMarkers(line) ==
    lstrip(lstrip(lstrip(lstrip(lstrip(strip(line),
        {"-", " "}), {"*", " "}), {"1", ".", " "}), {"2", ".", " "}), {"3", ".", " "})

RECURSIVE MapLines(_)
MapLines(lines) ==
    IF lines = <<>> THEN <<>>
    ELSE LET rest == MapLines(Tail(lines)) IN
         IF strip(Head(lines)) /= <<>>
         THEN <<StripMarkers(Head(lines))>> \o rest
         ELSE rest

RECURSIVE NonEmpty(_)
NonEmpty(reqs) ==
    IF reqs = <<>> THEN <<>>
    ELSE IF Head(reqs) /= <<>> THEN <<JStr(Head(reqs))>> \o NonEmpty(Tail(reqs))
    ELSE NonEmpty(Tail(reqs))

SplitLines(text) == NonEmpty(MapLines(split(strip(text), "\n", <<>>)))

(* a variant with the emptiness filter of the fallback applied to the parsed *)
(* array as well                                                           *)
extract_requirements_filtered(response) ==
    IF ~response.callOk THEN <<>>
    ELSE LET p == json_loads(response.text) IN
         IF p.ok /\ p.val.kind = "arr"
         THEN SelectSeq(p.val.items,
                        LAMBDA v : v.text /= <<>> \/ v.items /= <<>>)
         ELSE SplitLines(response.text)

extract_requirements(response) ==
    IF ~response.callOk THEN <<>>
    ELSE LET p == json_loads(response.text) IN
         IF p.ok /\ p.val.kind = "arr" THEN p.val.items
         ELSE SplitLines(response.text)

(***************************************************************************)
(* Python values in the formatter: dict.get, truthiness, iteration, str()  *)
(***************************************************************************)
Key(word) == <<word>>

(* d.get(k, default) *)
Get(d, k, default) ==
    LET i == KeyIndex(d.keys, Key(k)) IN
    IF i = 0 THEN default ELSE d.items[i]

Has(d, k) == d.kind = "obj" /\ KeyIndex(d.keys, Key(k)) /= 0

(* bool(v) *)
Truthy(v) ==
    CASE v.kind = "null" -> FALSE
      [] v.kind = "bool" -> v.text = <<"true">>
      [] v.kind = "num" -> \E i \in 1..Len(v.text) : v.text[i] \in Digits \ {"0"}
      [] v.kind = "str" -> v.text /= <<>>
      [] v.kind = "arr" -> v.items /= <<>>
      [] OTHER -> v.keys /= <<>>

(* for x in v: a list yields its items, a str its characters, a dict its   *)
(* keys; anything else raises TypeError                                    *)
Iterable(v) == v.kind \in {"arr", "str", "obj"}

Iter(v) ==
    CASE v.kind = "arr" -> v.items
      [] v.kind = "str" -> [i \in 1..Len(v.text) |-> JStr(<<v.text[i]>>)]
      [] OTHER -> [i \in 1..Len(v.keys) |-> JStr(v.keys[i])]

RECURSIVE PyRepr(_)
RECURSIVE PyReprItems(_)
RECURSIVE PyReprMembers(_, _)

PyRepr(v) ==
    CASE v.kind = "null" -> <<"None">>
      [] v.kind = "bool" -> <<IF v.text = <<"true">> THEN "True" ELSE "False">>
      [] v.kind = "num" -> v.text
      [] v.kind = "str" -> <<"'">> \o v.text \o <<"'">>
      [] v.kind = "arr" -> <<"[">> \o PyReprItems(v.items) \o <<"]">>
      [] OTHER -> <<"{">> \o PyReprMembers(v.keys, v.items) \o <<"}">>

PyReprItems(vs) ==
    IF vs = <<>> THEN <<>>
    ELSE IF Len(vs) = 1 THEN PyRepr(vs[1])
    ELSE PyRepr(vs[1]) \o <<",", " ">> \o PyReprItems(Tail(vs))

PyReprMembers(ks, vs) ==
    IF ks = <<>> THEN <<>>
    ELSE LET m == <<"'">> \o ks[1] \o <<"'", ":", " ">> \o PyRepr(vs[1]) IN
         IF Len(ks) = 1 THEN m
         ELSE m \o <<",", " ">> \o PyReprMembers(Tail(ks), Tail(vs))

(* str(v), as an f-string field formats it *)
PyStr(v) == IF v.kind = "str" THEN v.text ELSE PyRepr(v)

DigitOf(d) ==
    CASE d = 0 -> "0" [] d = 1 -> "1" [] d = 2 -> "2" [] d = 3 -> "3"
      [] d = 4 -> "4" [] d = 5 -> "5" [] d = 6 -> "6" [] d = 7 -> "7"
      [] d = 8 -> "8" [] OTHER -> "9"

(* str(n) of a natural number *)
RECURSIVE IntToText(_)
IntToText(n) ==
    IF n < 10 THEN <<DigitOf(n)>> ELSE Append(IntToText(n \div 10), DigitOf(n % 10))

(***************************************************************************)
(* The outcome of a call: a returned value or a raised exception.          *)
(***************************************************************************)
Returned(v) == [raised |-> FALSE, val |-> v]
Raised == [raised |-> TRUE, val |-> JNull]

(***************************************************************************)
(* TextProcessor.analyze_compliance                                        *)
(***************************************************************************)
K_overall_score == "overall_score"
K_requirements_analysis == "requirements_analysis"
K_general_feedback == "general_feedback"
K_improvement_suggestions == "improvement_suggestions"
K_requirement == "requirement"
K_satisfied == "satisfied"
K_score == "score"
K_feedback == "feedback"
K_suggestions == "suggestions"

Obj4(k1, v1, k2, v2, k3, v3, k4, v4) ==
    JObj(<<Key(k1), Key(k2), Key(k3), Key(k4)>>, <<v1, v2, v3, v4>>)

(* the synthetic entry of the parse-failure fallback *)
FallbackEntry(req) ==
    JObj(<<Key(K_requirement), Key(K_satisfied), Key(K_score), Key(K_feedback),
           Key(K_suggestions)>>,
         <<req, JBool(TRUE), JNum(<<"7", "0">>), JStr(<<"basic requirement met">>),
           JArr(<<JStr(<<"add more specific content">>)>>)>>)

ParseFailureResult(requirements) ==
    Obj4(K_overall_score, JNum(<<"7", "0">>),
         K_requirements_analysis,
            JArr([i \in 1..Len(requirements) |-> FallbackEntry(requirements[i])]),
         K_general_feedback, JStr(<<"meets the requirements with room to improve">>),
         K_improvement_suggestions,
            JArr(<<JStr(<<"add concrete examples">>), JStr(<<"improve the structure">>)>>))

CallFailureResult ==
    Obj4(K_overall_score, JNum(<<"0">>),
         K_requirements_analysis, JArr(<<>>),
         K_general_feedback, JStr(<<"an error occurred during the analysis">>),
         K_improvement_suggestions, JArr(<<>>))

(* a variant whose outer handler catches the decode error only, so a       *)
(* failed call propagates                                                  *)
analyze_compliance_propagates(requirements, response) ==
    IF ~response.callOk THEN Raised
    ELSE LET p == json_loads(response.text) IN
         IF p.ok THEN Returned(p.val)
         ELSE Returned(ParseFailureResult(requirements))

analyze_compliance(requirements, response) ==
    IF ~response.callOk THEN Returned(CallFailureResult)
    ELSE LET p == json_loads(response.text) IN
         IF p.ok THEN Returned(p.val)
         ELSE Returned(ParseFailureResult(requirements))

(***************************************************************************)
(* TextProcessor.generate_report                                           *)
(***************************************************************************)
ReportHead(analysis_result) ==
    <<"\n", "# ", "REPORT", "\n", "\n", "## ", "OVERALL: ">>
        \o PyStr(Get(analysis_result, K_overall_score, JNum(<<"0">>)))
        \o <<"/100", "\n", "\n", "## ", "ITEMS", "\n">>

RECURSIVE SuggestionLines(_, _)
SuggestionLines(ss, bullet) ==
    IF ss = <<>> THEN <<>>
    ELSE <<bullet>> \o PyStr(Head(ss)) \o <<"\n">> \o SuggestionLines(Tail(ss), bullet)

ItemSection(i, analysis) ==
    <<"\n", "### ">> \o IntToText(i) \o <<".", " ">>
        \o PyStr(Get(analysis, K_requirement, JStr(<<"N/A">>)))
        \o <<"\n", "- **STATUS**: ",
             IF Truthy(Get(analysis, K_satisfied, JBool(FALSE)))
             THEN "SATISFIED" ELSE "NOT SATISFIED",
             "\n", "- **SCORE**: ">>
        \o PyStr(Get(analysis, K_score, JNum(<<"0">>)))
        \o <<"/100", "\n", "- **FEEDBACK**: ">>
        \o PyStr(Get(analysis, K_feedback, JStr(<<"N/A">>)))
        \o <<"\n", "- **SUGGESTIONS**:", "\n">>
        \o SuggestionLines(Iter(Get(analysis, K_suggestions, JArr(<<>>))), "  - ")

RECURSIVE ItemSections(_, _)
ItemSections(entries, i) ==
    IF entries = <<>> THEN <<>>
    ELSE ItemSection(i, Head(entries)) \o ItemSections(Tail(entries), i + 1)

ReportTail(analysis_result) ==
    <<"\n", "## ", "GENERAL", "\n">>
        \o PyStr(Get(analysis_result, K_general_feedback, JStr(<<"N/A">>)))
        \o <<"\n", "\n", "## ", "IMPROVE", "\n">>
        \o SuggestionLines(
               Iter(Get(analysis_result, K_improvement_suggestions, JArr(<<>>))), "- ")

(* where a step of the formatter raises AttributeError or TypeError *)
ReportRaises(analysis_result) ==
    \/ analysis_result.kind /= "obj"
    \/ LET ras == Get(analysis_result, K_requirements_analysis, JArr(<<>>)) IN
       \/ ~Iterable(ras)
       \/ \E i \in 1..Len(Iter(ras)) :
            \/ Iter(ras)[i].kind /= "obj"
            \/ ~Iterable(Get(Iter(ras)[i], K_suggestions, JArr(<<>>)))
    \/ ~Iterable(Get(analysis_result, K_improvement_suggestions, JArr(<<>>)))

(* a variant with the item subsections numbered from 0, as enumerate does  *)
(* without its start argument                                              *)
generate_report_from_zero(analysis_result) ==
    IF ReportRaises(analysis_result) THEN [raised |-> TRUE, val |-> <<>>]
    ELSE [raised |-> FALSE,
          val |-> ReportHead(analysis_result)
                    \o ItemSections(
                         Iter(Get(analysis_result, K_requirements_analysis, JArr(<<>>))), 0)
                    \o ReportTail(analysis_result)]

generate_report(analysis_result) ==
    IF ReportRaises(analysis_result) THEN [raised |-> TRUE, val |-> <<>>]
    ELSE [raised |-> FALSE,
          val |-> ReportHead(analysis_result)
                    \o ItemSections(
                         Iter(Get(analysis_result, K_requirements_analysis, JArr(<<>>))), 1)
                    \o ReportTail(analysis_result)]

(***************************************************************************)
(* EmailSender.validate_email:                                             *)
(*   re.match(r'^[a-zA-Z0-9._%+-]+@[a-zA-Z0-9.-]+\.[a-zA-Z]{2,}$', email)  *)
(* There is a match when the text splits into a local part, "@", a domain, *)
(* ".", and two or more letters ending where "$" matches: at the end of    *)
(* the text, or just before a line break that ends the text.               *)
(***************************************************************************)
Letters ==
    {"a", "b", "c", "d", "e", "f", "g", "h", "i", "j", "k", "l", "m", "n", "o",
     "p", "q", "r", "s", "t", "u", "v", "w", "x", "y", "z",
     "A", "B", "C", "D", "E", "F", "G", "H", "I", "J", "K", "L", "M", "N", "O",
     "P", "Q", "R", "S", "T", "U", "V", "W", "X", "Y", "Z"}

LocalChars == Letters \cup Digits \cup {".", "_", "%", "+", "-"}
DomainChars == Letters \cup Digits \cup {".", "-"}

AllIn(s, from, to, chars) == \A i \in from..to : s[i] \in chars

(* "$" at the position after index k *)
DollarMatches(s, k) ==
    \/ k = Len(s)
    \/ k = Len(s) - 1 /\ s[Len(s)] = "\n"

validate_email(email) ==
    \E at \in 2..Len(email), dot \in 3..Len(email), k \in 1..Len(email) :
        /\ AllIn(email, 1, at - 1, LocalChars)
        /\ email[at] = "@"
        /\ at + 1 <= dot - 1
        /\ AllIn(email, at + 1, dot - 1, DomainChars)
        /\ email[dot] = "."
        /\ k >= dot + 2
        /\ AllIn(email, dot + 1, k, Letters)
        /\ DollarMatches(email, k)

Example_a_b_co == <<"a", "@", "b", ".", "c", "o">>
Example_sub_domain ==
    <<"a", ".", "b", "+", "c", "@", "s", "u", "b", ".", "d", "o", "m", "a", "i", "n",
      ".", "i", "o">>
Example_not_an_email ==
    <<"n", "o", "t", "-", "a", "n", "-", "e", "m", "a", "i", "l">>
Example_a_b == <<"a", "@", "b">>


(***************************************************************************)
(* EmailSender.send_report_email.  failing names the step of the transport *)
(* that throws, "none" when none does.  The result carries the steps of    *)
(* the SMTP session that were attempted.                                   *)
(***************************************************************************)
SmtpSteps == <<"connect", "starttls", "login", "send_message", "quit">>

StepIndex(step) == CHOOSE i \in 1..Len(SmtpSteps) : SmtpSteps[i] = step

(* the steps run when `failing` throws: those up to it and, when it throws *)
(* inside the with block, the QUIT of the block's exit                     *)
StepsRun(failing) ==
    IF failing = "none" THEN SmtpSteps
    ELSE SubSeq(SmtpSteps, 1, StepIndex(failing))
            \o (IF failing \in {"starttls", "login", "send_message"}
                THEN <<"quit">> ELSE <<>>)

(* a variant that does not look at the credentials before the transport *)
send_report_email_unchecked(sender_email, sender_password, failing) ==
    [raised |-> FALSE, val |-> failing = "none", smtp |-> StepsRun(failing)]

send_report_email(sender_email, sender_password, failing) ==
    IF sender_email = "" \/ sender_password = ""
    THEN [raised |-> FALSE, val |-> FALSE, smtp |-> <<>>]
    ELSE [raised |-> FALSE, val |-> failing = "none", smtp |-> StepsRun(failing)]

(***************************************************************************)
(* The application (app.py).  Every user action reruns the script: main,   *)
(* then the analysis tab, the results tab and the share tab in turn.       *)
(***************************************************************************)
ResultKeys == {"analysis_result", "report", "requirements", "submission_text"}

EmptySession ==
    [has |-> {}, api_key |-> "", analysis_result |-> JNull, report |-> <<>>,
     requirements |-> <<>>, submission_text |-> <<>>]

NoTrace ==
    [button |-> "none", api_key |-> "", halted |-> "", analysis |-> "idle",
     model_calls |-> <<>>,
     extract_failed |-> FALSE, extracted |-> <<>>, results_shown |-> FALSE,
     share_shown |-> FALSE, send |-> "none", smtp |-> <<>>, failing |-> "none"]

AppIdle ==
    /\ env = [GOOGLE_API_KEY |-> "", EMAIL_ADDRESS |-> "", EMAIL_PASSWORD |-> ""]
    /\ session = EmptySession
    /\ trace = NoTrace

(* the stored results of a session *)
StoredResults(s) ==
    [has |-> s.has \cap ResultKeys, analysis_result |-> s.analysis_result,
     report |-> s.report, requirements |-> s.requirements,
     submission_text |-> s.submission_text]

AnalysisOutcome(s, outcome, calls, failed, reqs) ==
    [session |-> s, analysis |-> outcome, model_calls |-> calls,
     extract_failed |-> failed, extracted |-> reqs]

(* a variant that keeps the requirement list of an earlier run *)
StoreResults_keeping_requirements(s, submission_text, extract_failed, requirements, analysis_result, rep) ==
    IF analysis_result.raised \/ rep.raised
    THEN AnalysisOutcome(s, "error", <<"extract_requirements", "analyze_compliance">>,
                         extract_failed, requirements)
    ELSE AnalysisOutcome([s EXCEPT !.has = @ \cup ResultKeys,
                                   !.analysis_result = analysis_result.val,
                                   !.report = rep.val,
                                   !.requirements = IF "requirements" \in s.has
                                                    THEN @ ELSE requirements,
                                   !.submission_text = submission_text],
                         "stored", <<"extract_requirements", "analyze_compliance">>,
                         extract_failed, requirements)

(* a variant that stores the analysis result before the report is made *)
StoreResults_before_report(s, submission_text, extract_failed, requirements, analysis_result, rep) ==
    IF analysis_result.raised
    THEN AnalysisOutcome(s, "error", <<"extract_requirements", "analyze_compliance">>,
                         extract_failed, requirements)
    ELSE IF rep.raised
    THEN AnalysisOutcome([s EXCEPT !.has = @ \cup {"analysis_result"},
                                   !.analysis_result = analysis_result.val],
                         "error", <<"extract_requirements", "analyze_compliance">>,
                         extract_failed, requirements)
    ELSE AnalysisOutcome([s EXCEPT !.has = @ \cup ResultKeys,
                                   !.analysis_result = analysis_result.val,
                                   !.report = rep.val,
                                   !.requirements = requirements,
                                   !.submission_text = submission_text],
                         "stored", <<"extract_requirements", "analyze_compliance">>,
                         extract_failed, requirements)

(* lines 266-276: the report is generated and the four results are stored; *)
(* an exception of generate_report is caught at line 278                   *)
StoreResults(s, submission_text, extract_failed, requirements, analysis_result, rep) ==
    IF analysis_result.raised \/ rep.raised
    THEN AnalysisOutcome(s, "error", <<"extract_requirements", "analyze_compliance">>,
                         extract_failed, requirements)
    ELSE AnalysisOutcome([s EXCEPT !.has = @ \cup ResultKeys,
                                   !.analysis_result = analysis_result.val,
                                   !.report = rep.val,
                                   !.requirements = requirements,
                                   !.submission_text = submission_text],
                         "stored", <<"extract_requirements", "analyze_compliance">>,
                         extract_failed, requirements)

(* lines 266-268 *)
FormatAndStore(s, submission_text, extract_failed, requirements, analysis_result) ==
    StoreResults(s, submission_text, extract_failed, requirements, analysis_result,
                 generate_report(analysis_result.val))

(* a variant that goes on with an empty requirement list *)
AnalyzeExtracted_unguarded(s, submission_text, extract_failed, requirements, analyzeAnswer) ==
    FormatAndStore(s, submission_text, extract_failed, requirements,
                   analyze_compliance(requirements, analyzeAnswer))

(* lines 258-264: an empty requirement list ends the run *)
AnalyzeExtracted(s, submission_text, extract_failed, requirements, analyzeAnswer) ==
    IF requirements = <<>>
    THEN AnalysisOutcome(s, "no_requirements", <<"extract_requirements">>,
                         extract_failed, requirements)
    ELSE FormatAndStore(s, submission_text, extract_failed, requirements,
                        analyze_compliance(requirements, analyzeAnswer))

(* a variant without the check of lines 258-260 *)
show_analysis_tab_without_empty_check(s, button, requirements_text, submission_text, extractAnswer, analyzeAnswer) ==
    IF button /= "analyze"
    THEN AnalysisOutcome(s, "idle", <<>>, FALSE, <<>>)
    ELSE IF strip(requirements_text) = <<>> \/ strip(submission_text) = <<>>
    THEN AnalysisOutcome(s, "blank", <<>>, FALSE, <<>>)
    ELSE IF "api_key" \notin s.has \/ s.api_key = ""
    THEN AnalysisOutcome(s, "no_key", <<>>, FALSE, <<>>)
    ELSE AnalyzeExtracted_unguarded(s, submission_text, ~extractAnswer.callOk,
                                    extract_requirements(extractAnswer), analyzeAnswer)

(* show_analysis_tab: lines 237-279 when the start button is pressed *)
show_analysis_tab(s, button, requirements_text, submission_text, extractAnswer, analyzeAnswer) ==
    IF button /= "analyze"
    THEN AnalysisOutcome(s, "idle", <<>>, FALSE, <<>>)
    ELSE IF strip(requirements_text) = <<>> \/ strip(submission_text) = <<>>
    THEN AnalysisOutcome(s, "blank", <<>>, FALSE, <<>>)
    ELSE IF "api_key" \notin s.has \/ s.api_key = ""
    THEN AnalysisOutcome(s, "no_key", <<>>, FALSE, <<>>)
    ELSE AnalyzeExtracted(s, submission_text, ~extractAnswer.callOk,
                          extract_requirements(extractAnswer), analyzeAnswer)

(* a number for Python's comparison and sum: int, float or bool *)
IsNumber(v) == v.kind \in {"num", "bool"}

(* where rendering the results raises: a score that is no number, a        *)
(* division by an empty requirement list, a value that cannot be iterated  *)
ResultsRaise(s) ==
    LET ar == s.analysis_result IN
    \/ ar.kind /= "obj"
    \/ ~IsNumber(Get(ar, K_overall_score, JNum(<<"0">>)))
    \/ s.requirements = <<>>
    \/ ReportRaises(ar)
    \/ \E i \in 1..Len(Iter(Get(ar, K_requirements_analysis, JArr(<<>>)))) :
          ~IsNumber(Get(Iter(Get(ar, K_requirements_analysis, JArr(<<>>)))[i],
                        K_score, JNum(<<"0">>)))

show_results_tab(s) ==
    IF "analysis_result" \notin s.has THEN [shown |-> FALSE, raised |-> FALSE]
    ELSE IF ResultsRaise(s) THEN [shown |-> FALSE, raised |-> TRUE]
    ELSE [shown |-> TRUE, raised |-> FALSE]

SendOutcome(r) ==
    [shown |-> TRUE,
     send |-> IF r.raised THEN "raised" ELSE IF r.val THEN "true" ELSE "false",
     smtp |-> r.smtp]

show_share_tab(s, e, button, recipient_email, failing) ==
    IF "report" \notin s.has
    THEN [shown |-> FALSE, send |-> "none", smtp |-> <<>>]
    ELSE IF button /= "send" \/ recipient_email = <<>> \/ ~validate_email(recipient_email)
    THEN [shown |-> TRUE, send |-> "none", smtp |-> <<>>]
    ELSE SendOutcome(send_report_email(e.EMAIL_ADDRESS, e.EMAIL_PASSWORD, failing))

(* the trace of a run that got through the tabs *)
RunTrace(in, api_key, a, r, sh) ==
    [button |-> in.button,
     api_key |-> api_key,
     halted |-> IF r.raised THEN "results_error" ELSE "",
     analysis |-> a.analysis,
     model_calls |-> a.model_calls,
     extract_failed |-> a.extract_failed,
     extracted |-> a.extracted,
     results_shown |-> r.shown,
     share_shown |-> ~r.raised /\ sh.shown,
     send |-> IF r.raised THEN "none" ELSE sh.send,
     smtp |-> IF r.raised THEN <<>> ELSE sh.smtp,
     failing |-> IF r.raised \/ sh.send = "none" THEN "none" ELSE in.failing]

(* lines 129-136: the three tabs in turn; an exception of the results tab  *)
(* ends the run before the share tab                                       *)
Tabs(e, in, api_key, a) ==
    [session |-> a.session,
     trace |-> RunTrace(in, api_key, a, show_results_tab(a.session),
                        show_share_tab(a.session, e, in.button, in.recipient_email,
                                       in.failing))]

WithKey(e, s, in, api_key) ==
    IF api_key = ""
    THEN [session |-> s,
          trace |-> [NoTrace EXCEPT !.button = in.button, !.halted = "no_api_key"]]
    ELSE Tabs(e, in, api_key,
              show_analysis_tab([s EXCEPT !.has = @ \cup {"api_key"}, !.api_key = api_key],
                                in.button, in.requirements_text, in.submission_text,
                                in.extract, in.analyze))

(* a variant that goes on to the tabs without a key, the session keeping   *)
(* the key of an earlier run                                               *)
main_without_return(e, s, in) ==
    Tabs(e, in, IF e.GOOGLE_API_KEY /= "" THEN e.GOOGLE_API_KEY ELSE in.manual_api_key,
         show_analysis_tab(IF e.GOOGLE_API_KEY = "" /\ in.manual_api_key = "" THEN s
                           ELSE [s EXCEPT !.has = @ \cup {"api_key"},
                                          !.api_key = IF e.GOOGLE_API_KEY /= ""
                                                      THEN e.GOOGLE_API_KEY
                                                      ELSE in.manual_api_key],
                           in.button, in.requirements_text, in.submission_text,
                           in.extract, in.analyze))

(* one run of the script: the next session and the trace of the run *)
main(e, s, in) ==
    WithKey(e, s, in,
            IF e.GOOGLE_API_KEY /= "" THEN e.GOOGLE_API_KEY ELSE in.manual_api_key)

(***************************************************************************)
(* Requirement extraction applied to every short answer.                   *)
(***************************************************************************)
JsonChars == {"[", "]", ",", "\"", "1", " "}
LineChars == {"-", " ", "*", "1", "2", ".", "a", "\n"}

ExtractInputs ==
    {CallFailed}
        \cup {Answer(t) : t \in TextsOver(JsonChars, MaxJsonLen)}
        \cup {Answer(t) : t \in TextsOver(LineChars, MaxLineLen)}

InitExtract ==
    /\ fn = "extract_requirements"
    /\ fn_in \in ExtractInputs
    /\ fn_out = <<>>
    /\ report = <<>>
    /\ pc = "call"
    /\ AppIdle

CallExtract ==
    /\ fn = "extract_requirements"
    /\ pc = "call"
    /\ fn_out' = extract_requirements(fn_in)
    /\ pc' = "done"
    /\ UNCHANGED <<fn, fn_in, report>>
    /\ UNCHANGED appVars

NextExtract == CallExtract

SpecExtract == InitExtract /\ [][NextExtract]_vars

(***************************************************************************)
(* Compliance analysis and report formatting applied to the answers the    *)
(* model can give: JSON of the expected shape with fields missing,         *)
(* mistyped or out of range, JSON of another shape, and text that is not   *)
(* JSON.                                                                   *)
(***************************************************************************)
Absent == [kind |-> "absent", text |-> <<>>, keys |-> <<>>, items |-> <<>>]

(* the object with the given members, the absent ones left out *)
RECURSIVE MkObj(_, _)
MkObj(ks, vs) ==
    IF ks = <<>> THEN JObj(<<>>, <<>>)
    ELSE LET rest == MkObj(Tail(ks), Tail(vs)) IN
         IF Head(vs) = Absent THEN rest
         ELSE JObj(<<Key(Head(ks))>> \o rest.keys, <<Head(vs)>> \o rest.items)

ScoreAnswers ==
    {Absent, JNum(<<"0">>), JNum(<<"1", "0", "0">>), JNum(<<"1", "5", "0">>),
     JNum(<<"-", "1">>), JNum(<<"7", ".", "5">>), JStr(<<"high">>)}

EntryAnswers ==
    {MkObj(<<K_requirement, K_satisfied, K_score, K_feedback, K_suggestions>>,
           <<r, sat, sc, JStr(<<"fb">>), sg>>) :
        r \in {Absent, JStr(<<"r1">>)},
        sat \in {Absent, JBool(TRUE), JBool(FALSE)},
        sc \in ScoreAnswers,
        sg \in {Absent, JArr(<<>>), JArr(<<JStr(<<"s1">>), JStr(<<"s2">>)>>), JNull}}

SmallEntryAnswers ==
    {MkObj(<<K_requirement, K_satisfied, K_score>>, <<JStr(<<"r1">>), JBool(TRUE), JNum(<<"9", "0">>)>>),
     MkObj(<<K_requirement, K_satisfied, K_score>>, <<JStr(<<"r2">>), JBool(FALSE), JNum(<<"4", "0">>)>>),
     JNum(<<"5">>)}

AnalysisListAnswers ==
    {Absent, JNull, JNum(<<"5">>), JStr(<<>>), JStr(<<"text">>), JArr(<<>>),
     JObj(<<Key("k")>>, <<JNum(<<"1">>)>>)}
        \cup {JArr(<<e>>) : e \in EntryAnswers}
        \cup {JArr(es) : es \in UNION {[1..k -> SmallEntryAnswers] : k \in 2..MaxEntries}}

ResultAnswers ==
    {MkObj(<<K_overall_score, K_requirements_analysis, K_general_feedback,
             K_improvement_suggestions>>, <<o, ra, gf, im>>) :
        o \in {Absent, JNum(<<"8", "5">>), JNum(<<"1", "5", "0">>), JStr(<<"high">>)},
        ra \in AnalysisListAnswers,
        gf \in {Absent, JStr(<<"fine">>)},
        im \in {Absent, JArr(<<JStr(<<"i1">>)>>), JNull}}

OtherShapeAnswers ==
    {JArr(<<>>), JArr(<<JNum(<<"1">>)>>), JNum(<<"4", "2">>), JStr(<<"text">>),
     JNull, JBool(TRUE)}

(* an answer laid out with blanks and line breaks *)
RECURSIVE Spaced(_)
Spaced(t) ==
    IF t = <<>> THEN <<"\n">>
    ELSE IF Head(t) \in {",", ":", "{", "["} THEN <<Head(t), "\n", " ">> \o Spaced(Tail(t))
    ELSE <<Head(t)>> \o Spaced(Tail(t))

(* answers that are not JSON: empty, prose, a fenced block, a cut-off text *)
NotJsonTexts ==
    {<<>>, <<"Sure", " ", "here", " ", "it", " ", "is">>,
     <<"fence-json", "\n">> \o Dumps(JObj(<<Key(K_overall_score)>>, <<JNum(<<"9", "0">>)>>))
        \o <<"\n", "fence">>,
     <<"{", "\"", K_overall_score, "\"", ":", "9", "0", ",">>,
     <<"{", "\"", K_overall_score, "\"", ":", "0", "9", "}">>,
     <<"[", "1", ",", "]">>}

AnalysisTexts ==
    {Dumps(v) : v \in ResultAnswers \cup OtherShapeAnswers}
        \cup {Spaced(Dumps(v)) : v \in OtherShapeAnswers}
        \cup {Spaced(Dumps(JObj(<<Key(K_requirements_analysis)>>, <<JArr(es)>>))) :
                es \in [1..2 -> SmallEntryAnswers]}
        \cup NotJsonTexts

RequirementValues == {JStr(<<"r1">>), JNum(<<"2">>)}

RequirementLists == UNION {[1..k -> RequirementValues] : k \in 0..MaxReqs}

AnalyzeInputs ==
    {[requirements |-> rs, response |-> a] :
        rs \in RequirementLists,
        a \in {CallFailed} \cup {Answer(t) : t \in AnalysisTexts}}

InitAnalyze ==
    /\ fn = "analyze_compliance"
    /\ fn_in \in AnalyzeInputs
    /\ fn_out = <<>>
    /\ report = <<>>
    /\ pc = "call"
    /\ AppIdle

CallAnalyze ==
    /\ fn = "analyze_compliance"
    /\ pc = "call"
    /\ fn_out' = analyze_compliance(fn_in.requirements, fn_in.response)
    /\ pc' = "analyzed"
    /\ UNCHANGED <<fn, fn_in, report>>
    /\ UNCHANGED appVars

(* the caller formats what the analysis returned *)
CallReport ==
    /\ fn = "analyze_compliance"
    /\ pc = "analyzed"
    /\ ~fn_out.raised
    /\ report' = generate_report(fn_out.val)
    /\ pc' = "done"
    /\ UNCHANGED <<fn, fn_in, fn_out>>
    /\ UNCHANGED appVars

NextAnalyze == CallAnalyze \/ CallReport

SpecAnalyze == InitAnalyze /\ [][NextAnalyze]_vars

(***************************************************************************)
(* Address validation applied to every short address and to the examples.  *)
(***************************************************************************)
EmailChars == {"a", "1", "@", ".", "\n"}

EmailInputs ==
    TextsOver(EmailChars, MaxEmailLen)
        \cup {Example_a_b_co, Example_sub_domain, Example_not_an_email, Example_a_b}
        \cup {<<"a", "_", "%", "-", "@", "b", "-", "1", ".", "C", "o">>,
              <<"a", "@", "b", "_", ".", "c", "o">>,
              <<" ", "a", "@", "b", ".", "c", "o">>,
              <<"a", "@", "b", ".", "c", "o", " ">>}

InitEmail ==
    /\ fn = "validate_email"
    /\ fn_in \in EmailInputs
    /\ fn_out = FALSE
    /\ report = <<>>
    /\ pc = "call"
    /\ AppIdle

CallValidate ==
    /\ fn = "validate_email"
    /\ pc = "call"
    /\ fn_out' = validate_email(fn_in)
    /\ pc' = "done"
    /\ UNCHANGED <<fn, fn_in, report>>
    /\ UNCHANGED appVars

NextEmail == CallValidate

SpecEmail == InitEmail /\ [][NextEmail]_vars

(***************************************************************************)
(* ImageProcessor (image_processor.py).  An image is what opening it and   *)
(* recognising it give: the recognised text, or the message of the         *)
(* exception raised on the way.                                            *)
(***************************************************************************)
NoTextFound == <<"no-text-in-image">>
ImageErrorPrefix == <<"image-processing-error", ":", " ">>

Recognized(t) == [ok |-> TRUE, text |-> t]
ImageFailed(message) == [ok |-> FALSE, text |-> message]

(* lines 117-123: every line stripped, the empty ones left out *)
RECURSIVE CleanedLines(_)
CleanedLines(lines) ==
    IF lines = <<>> THEN <<>>
    ELSE IF strip(Head(lines)) /= <<>>
         THEN <<strip(Head(lines))>> \o CleanedLines(Tail(lines))
         ELSE CleanedLines(Tail(lines))

(* '\n'.join(lines) *)
RECURSIVE JoinLines(_)
JoinLines(lines) ==
    IF lines = <<>> THEN <<>>
    ELSE IF Len(lines) = 1 THEN Head(lines)
    ELSE Head(lines) \o <<"\n">> \o JoinLines(Tail(lines))

_clean_text(text) ==
    IF text = <<>> THEN NoTextFound
    ELSE JoinLines(CleanedLines(split(text, "\n", <<>>)))

extract_text_from_image(image) ==
    IF image.ok THEN _clean_text(image.text)
    ELSE ImageErrorPrefix \o image.text

OcrChars == {"a", "b", " ", "\n"}

ImageInputs ==
    {Recognized(t) : t \in TextsOver(OcrChars, MaxOcrLen)}
        \cup {ImageFailed(m) : m \in {<<>>, <<"cannot identify image file">>,
                                      <<"tesseract is not installed">>}}

InitImage ==
    /\ fn = "extract_text_from_image"
    /\ fn_in \in ImageInputs
    /\ fn_out = <<>>
    /\ report = <<>>
    /\ pc = "call"
    /\ AppIdle

CallExtractImage ==
    /\ fn = "extract_text_from_image"
    /\ pc = "call"
    /\ fn_out' = extract_text_from_image(fn_in)
    /\ pc' = "done"
    /\ UNCHANGED <<fn, fn_in, report>>
    /\ UNCHANGED appVars

NextImage == CallExtractImage

SpecImage == InitImage /\ [][NextImage]_vars

(***************************************************************************)
(* What the user and the outside world can supply to a run.                *)
(***************************************************************************)
ManualKeys == {"", "manual-key"}
RequirementTexts == {<<>>, <<" ", "\n">>, <<"do", " ", "it">>}
SubmissionTexts == {<<>>, <<" ">>, <<"work1">>, <<"work2">>}

SessionExtractAnswers ==
    {CallFailed,
     Answer(<<>>),
     Answer(<<"[", "]">>),
     Answer(<<"1", ".">>),
     Answer(<<"[", "\"", "r1", "\"", ",", "\"", "r2", "\"", "]">>),
     Answer(<<"-", " ", "r1", "\n", "-", " ", "r2", "\n", "-", " ", "r3">>)}

SessionAnalyzeAnswers ==
    {CallFailed,
     Answer(<<"Sure", " ", "here", " ", "it", " ", "is">>),
     Answer(<<"[", "]">>),
     Answer(Dumps(MkObj(<<K_overall_score, K_requirements_analysis,
                          K_general_feedback, K_improvement_suggestions>>,
                        <<JNum(<<"8", "5">>),
                          JArr(<<MkObj(<<K_requirement, K_satisfied, K_score>>,
                                       <<JStr(<<"r1">>), JBool(TRUE), JNum(<<"9", "0">>)>>),
                                 MkObj(<<K_requirement, K_satisfied, K_score>>,
                                       <<JStr(<<"r2">>), JBool(FALSE), JNum(<<"1", "5", "0">>)>>)>>),
                          JStr(<<"fine">>), JArr(<<JStr(<<"i1">>)>>)>>))),
     Answer(Dumps(MkObj(<<K_overall_score, K_requirements_analysis>>,
                        <<JStr(<<"high">>), JArr(<<>>)>>))),
     Answer(Dumps(MkObj(<<K_requirements_analysis>>,
                        <<JArr(<<MkObj(<<K_score>>, <<JStr(<<"high">>)>>)>>)>>))),
     Answer(Dumps(MkObj(<<K_requirements_analysis>>, <<JNull>>)))}

Recipients ==
    {<<>>, Example_a_b_co, Example_not_an_email}

Failings == {"none", "connect", "starttls", "login", "send_message", "quit"}

NoInput ==
    [manual_api_key |-> "", button |-> "none", requirements_text |-> <<>>,
     submission_text |-> <<>>, extract |-> CallFailed, analyze |-> CallFailed,
     recipient_email |-> <<>>, failing |-> "none"]

Init ==
    /\ fn = "app" /\ fn_in = <<>> /\ fn_out = <<>> /\ report = <<>> /\ pc = "idle"
    /\ env \in [GOOGLE_API_KEY : {"", "env-key"},
                EMAIL_ADDRESS : {"", "sender@gmail.com"},
                EMAIL_PASSWORD : {"", "app-password"}]
    /\ session = EmptySession
    /\ trace = NoTrace

(* a widget changes: the script reruns with no button pressed *)
Rerun ==
    /\ fn = "app"
    /\ \E k \in ManualKeys :
        \E m \in {main(env, session, [NoInput EXCEPT !.manual_api_key = k])} :
            session' = m.session /\ trace' = m.trace
    /\ UNCHANGED <<env, fnVars>>

(* the start button of the analysis tab *)
ClickAnalyze ==
    /\ fn = "app"
    /\ \E k \in ManualKeys, rt \in RequirementTexts, sub \in SubmissionTexts,
          ex \in SessionExtractAnswers, an \in SessionAnalyzeAnswers :
        \E m \in {main(env, session,
                       [NoInput EXCEPT !.manual_api_key = k, !.button = "analyze",
                                       !.requirements_text = rt, !.submission_text = sub,
                                       !.extract = ex, !.analyze = an])} :
            session' = m.session /\ trace' = m.trace
    /\ UNCHANGED <<env, fnVars>>

(* the send button of the share tab *)
ClickSend ==
    /\ fn = "app"
    /\ \E k \in ManualKeys, to \in Recipients, f \in Failings :
        \E m \in {main(env, session,
                       [NoInput EXCEPT !.manual_api_key = k, !.button = "send",
                                       !.recipient_email = to, !.failing = f])} :
            session' = m.session /\ trace' = m.trace
    /\ UNCHANGED <<env, fnVars>>

Next == Rerun \/ ClickAnalyze \/ ClickSend

Spec == Init /\ [][Next]_vars

(***************************************************************************)
(* Claim-side definitions for extraction: the text of an                   *)
(* answer with the blanks outside its strings removed, and the documented  *)
(* line fallback (one literal marker removed per line).                    *)
(***************************************************************************)
RECURSIVE Compact(_, _)
Compact(s, inString) ==
    IF s = <<>> THEN <<>>
    ELSE IF Head(s) = "\"" THEN <<"\"">> \o Compact(Tail(s), ~inString)
    ELSE IF ~inString /\ Head(s) \in Whitespace THEN Compact(Tail(s), inString)
    ELSE <<Head(s)>> \o Compact(Tail(s), inString)

IsPrefix(p, s) == Len(p) <= Len(s) /\ SubSeq(s, 1, Len(p)) = p

Markers == {<<"-", " ">>, <<"*", " ">>, <<"1", ".", " ">>,
            <<"2", ".", " ">>, <<"3", ".", " ">>}

StripOneMarker(line) ==
    IF \E m \in Markers : IsPrefix(m, line)
    THEN LET m == CHOOSE m \in Markers : IsPrefix(m, line) IN
         SubSeq(line, Len(m) + 1, Len(line))
    ELSE line

RECURSIVE DocumentedLines(_)
DocumentedLines(lines) ==
    IF lines = <<>> THEN <<>>
    ELSE LET r == StripOneMarker(strip(Head(lines))) IN
         IF r /= <<>> THEN <<JStr(r)>> \o DocumentedLines(Tail(lines))
         ELSE DocumentedLines(Tail(lines))

ExtractDone == fn = "extract_requirements" /\ pc = "done"

(* C4: when the answer is valid JSON encoding an array, extract_requirements
   returns exactly that array: rendering the returned list as compact JSON
   gives back the answer's text with the blanks outside strings removed, so
   length, elements, order and duplicates are those of the answer. *)
C4_ArrayReturnedUnchanged ==
    (ExtractDone /\ fn_in.callOk /\ json_loads(fn_in.text).ok
        /\ json_loads(fn_in.text).val.kind = "arr")
    => Dumps(JArr(fn_out)) = Compact(fn_in.text, FALSE)

(* a two-element answer with a falsy element and a duplicate was returned *)
C4_Witness ==
    /\ ExtractDone
    /\ fn_in.text = <<"[", "\"", "\"", ",", "1", "]">>
    /\ fn_out = <<JStr(<<>>), JNum(<<"1">>)>>

C4_WitnessDuplicates ==
    /\ ExtractDone
    /\ fn_in.text = <<"[", "1", ",", " ", "1", "]">>
    /\ fn_out = <<JNum(<<"1">>), JNum(<<"1">>)>>

(* C5: when the answer is not valid JSON, extract_requirements returns, in
   order, the answer's trimmed lines with at most one leading literal marker
   ("- ", "* ", "1. ", "2. ", "3. ") removed, the rest of the line unchanged,
   and the lines that are empty after this dropped. *)
C5_LineFallbackStripsOneMarker ==
    (ExtractDone /\ fn_in.callOk /\ ~json_loads(fn_in.text).ok)
    => fn_out = DocumentedLines(split(fn_in.text, "\n", <<>>))

(***************************************************************************)
(* Claim-side definitions for analysis and formatting.                     *)
(***************************************************************************)
DigitVal(c) ==
    CASE c = "0" -> 0 [] c = "1" -> 1 [] c = "2" -> 2 [] c = "3" -> 3
      [] c = "4" -> 4 [] c = "5" -> 5 [] c = "6" -> 6 [] c = "7" -> 7
      [] c = "8" -> 8 [] OTHER -> 9

RECURSIVE NumeralValue(_)
NumeralValue(t) ==
    IF t = <<>> THEN 0
    ELSE 10 * NumeralValue(SubSeq(t, 1, Len(t) - 1)) + DigitVal(t[Len(t)])

(* v is an integer between lo and hi *)
IsIntegerIn(v, lo, hi) ==
    /\ v.kind = "num"
    /\ \A i \in 1..Len(v.text) : v.text[i] \in Digits
    /\ NumeralValue(v.text) \in lo..hi

(* an object carrying overall_score, requirements_analysis (a sequence of
   objects), general_feedback and improvement_suggestions (a sequence) *)
StructurallyValid(v) ==
    /\ v.kind = "obj"
    /\ Has(v, K_overall_score) /\ Has(v, K_general_feedback)
    /\ Has(v, K_requirements_analysis) /\ Has(v, K_improvement_suggestions)
    /\ Get(v, K_requirements_analysis, JNull).kind = "arr"
    /\ \A i \in 1..Len(Get(v, K_requirements_analysis, JNull).items) :
          Get(v, K_requirements_analysis, JNull).items[i].kind = "obj"
    /\ Get(v, K_improvement_suggestions, JNull).kind = "arr"

(* an AnalysisResult of the data model: structurally valid, the suggestions
   of every entry that carries them being a sequence *)
IsAnalysisResult(v) ==
    /\ StructurallyValid(v)
    /\ \A i \in 1..Len(Get(v, K_requirements_analysis, JNull).items) :
          LET e == Get(v, K_requirements_analysis, JNull).items[i] IN
          Has(e, K_suggestions) => Get(e, K_suggestions, JNull).kind = "arr"

AnalyzeReturned == fn = "analyze_compliance" /\ pc \in {"analyzed", "done"}
ReportDone == fn = "analyze_compliance" /\ pc = "done"

(* C1: analyze_compliance never raises; a failed call yields overall_score 0
   with empty requirements_analysis and improvement_suggestions; an answer
   that is not JSON yields overall_score 70 with one synthetic entry per
   supplied requirement, in order, carrying that requirement,
   satisfied = true and score = 70. *)
C1_AnalyzeFallbacks ==
    AnalyzeReturned =>
        /\ ~fn_out.raised
        /\ ~fn_in.response.callOk =>
              /\ Get(fn_out.val, K_overall_score, JNull) = JNum(<<"0">>)
              /\ Get(fn_out.val, K_requirements_analysis, JNull) = JArr(<<>>)
              /\ Get(fn_out.val, K_improvement_suggestions, JNull) = JArr(<<>>)
        /\ (fn_in.response.callOk /\ fn_in.response.text \in NotJsonTexts) =>
              LET ra == Get(fn_out.val, K_requirements_analysis, JNull) IN
              /\ Get(fn_out.val, K_overall_score, JNull) = JNum(<<"7", "0">>)
              /\ ra.kind = "arr"
              /\ Len(ra.items) = Len(fn_in.requirements)
              /\ \A i \in 1..Len(ra.items) :
                    /\ Get(ra.items[i], K_requirement, JNull) = fn_in.requirements[i]
                    /\ Get(ra.items[i], K_satisfied, JNull) = JBool(TRUE)
                    /\ Get(ra.items[i], K_score, JNull) = JNum(<<"7", "0">>)

(* an answer that is not JSON was turned into two synthetic entries *)
C1_Witness ==
    /\ AnalyzeReturned
    /\ fn_in.response.callOk
    /\ fn_in.response.text \in NotJsonTexts
    /\ fn_in.requirements = <<JStr(<<"r1">>), JNum(<<"2">>)>>
    /\ Len(Get(fn_out.val, K_requirements_analysis, JNull).items) = 2

C1_WitnessCallFailure ==
    /\ AnalyzeReturned
    /\ ~fn_in.response.callOk
    /\ Len(fn_in.requirements) = 2
    /\ fn_out = Returned(CallFailureResult)

(* C2: whatever the model answers, the value analyze_compliance returns is a
   structurally valid AnalysisResult. *)
C2_AlwaysStructurallyValid ==
    AnalyzeReturned => (~fn_out.raised /\ StructurallyValid(fn_out.val))

(* C3: in every result analyze_compliance returns, every entry of
   requirements_analysis carries a satisfied field and a score that is an
   integer in 0..100. *)
C3_ScoresInRange ==
    (AnalyzeReturned /\ ~fn_out.raised /\ StructurallyValid(fn_out.val)) =>
        \A i \in 1..Len(Get(fn_out.val, K_requirements_analysis, JNull).items) :
            LET e == Get(fn_out.val, K_requirements_analysis, JNull).items[i] IN
            /\ Has(e, K_satisfied)
            /\ Has(e, K_score)
            /\ IsIntegerIn(Get(e, K_score, JNull), 0, 100)

(* the places of an atom in a text *)
Places(t, a) == {i \in 1..Len(t) : t[i] = a}

(* the k-th item heading of the report reads "k. <requirement>" *)
HeadingReads(t, p, k, entry) ==
    LET want == IntToText(k) \o <<".", " ">>
                    \o PyStr(Get(entry, K_requirement, JStr(<<"N/A">>))) \o <<"\n">>
    IN  /\ p + Len(want) <= Len(t)
        /\ SubSeq(t, p + 1, p + Len(want)) = want

(* C7: the report of an AnalysisResult holds exactly one item subsection per
   requirements_analysis entry, numbered 1..n in the order of the entries,
   between the headings of the overall score, of the per-item results, of
   the general feedback and of the improvement suggestions, each present
   once and in that order; for an empty requirements_analysis the headings
   are there and no item subsection is. *)
C7_ReportSections ==
    (ReportDone /\ IsAnalysisResult(fn_out.val)) =>
        LET t == report.val
            entries == Get(fn_out.val, K_requirements_analysis, JNull).items
            items == Places(t, "### ")
        IN  /\ ~report.raised
            /\ Cardinality(items) = Len(entries)
            /\ \A p \in items :
                  HeadingReads(t, p, Cardinality({q \in items : q <= p}),
                               entries[Cardinality({q \in items : q <= p})])
            /\ \A h \in {"OVERALL: ", "ITEMS", "GENERAL", "IMPROVE"} :
                  Cardinality(Places(t, h)) = 1
            /\ \A a \in Places(t, "OVERALL: "), b \in Places(t, "ITEMS"),
                  c \in Places(t, "GENERAL"), d \in Places(t, "IMPROVE") :
                  /\ a < b /\ b < c /\ c < d
                  /\ \A p \in items : b < p /\ p < c
                  /\ entries = <<>> =>
                        \A i \in (b + 1)..(c - 1) : t[i] \in {"\n", "## "}

(* a result with two entries was formatted *)
C7_Witness ==
    /\ ReportDone
    /\ IsAnalysisResult(fn_out.val)
    /\ Len(Get(fn_out.val, K_requirements_analysis, JNull).items) = 2
    /\ Cardinality(Places(report.val, "### ")) = 2

C7_WitnessEmpty ==
    /\ ReportDone
    /\ IsAnalysisResult(fn_out.val)
    /\ Get(fn_out.val, K_requirements_analysis, JNull) = JArr(<<>>)
    /\ ~report.raised

(* C8: generate_report returns a string, and does not raise, for every value
   analyze_compliance can return. *)
C8_ReportNeverRaises ==
    ReportDone => ~report.raised

(***************************************************************************)
(* Claim-side definitions for address validation.                          *)
(***************************************************************************)
(* the whole address is: local part, "@", domain, ".", two or more letters.
   The parts hold no "@" and the last part no ".", so the "@" is the only
   one and the "." is the last one. *)
WholeAddressForm(s) ==
    /\ Cardinality(Places(s, "@")) = 1
    /\ Places(s, ".") /= {}
    /\ LET at == CHOOSE i \in Places(s, "@") : TRUE
           dot == CHOOSE i \in Places(s, ".") : \A j \in Places(s, ".") : j <= i
       IN  /\ at >= 2
           /\ \A i \in 1..(at - 1) : s[i] \in LocalChars
           /\ dot >= at + 2
           /\ \A i \in (at + 1)..(dot - 1) : s[i] \in DomainChars
           /\ Len(s) >= dot + 2
           /\ \A i \in (dot + 1)..Len(s) : s[i] \in Letters

ValidateDone == fn = "validate_email" /\ pc = "done"

(* C9: validate_email returns true exactly when the whole address, with no
   extra character before or after, has the form local part, "@", domain,
   ".", two or more letters; a@b.co and a.b+c@sub.domain.io are accepted,
   not-an-email and a@b are rejected. *)
C9_ValidateWholeAddress ==
    ValidateDone =>
        /\ fn_out = WholeAddressForm(fn_in)
        /\ fn_in \in {Example_a_b_co, Example_sub_domain} => fn_out = TRUE
        /\ fn_in \in {Example_not_an_email, Example_a_b} => fn_out = FALSE

(* apart from a line break that ends the address, the verdict is the form *)
C9_FormUpToFinalLineBreak ==
    ValidateDone =>
        fn_out = \/ WholeAddressForm(fn_in)
                 \/ /\ fn_in /= <<>>
                    /\ fn_in[Len(fn_in)] = "\n"
                    /\ WholeAddressForm(SubSeq(fn_in, 1, Len(fn_in) - 1))

(***************************************************************************)
(* Claim-side definitions for the analysis run and for delivery.           *)
(***************************************************************************)
(* C6: when the model call inside extract_requirements fails, the function
   returns the empty sequence, and the analysis run ends there:
   analyze_compliance is not called in that run and the results stored in
   the session stay as they were. *)
C6_FailedExtractionEndsRun ==
    [][(trace'.button = "analyze" /\ trace'.extract_failed) =>
          /\ trace'.extracted = <<>>
          /\ trace'.model_calls = <<"extract_requirements">>
          /\ trace'.analysis = "no_requirements"
          /\ StoredResults(session') = StoredResults(session)]_vars

(* a failed extraction in a session that holds the results of an earlier run *)
C6_Witness ==
    /\ trace.button = "analyze"
    /\ trace.extract_failed
    /\ ResultKeys \subseteq session.has

(* a failed extraction in a fresh session *)
C6_WitnessFresh ==
    /\ trace.button = "analyze"
    /\ trace.extract_failed
    /\ session.has \cap ResultKeys = {}

CredentialsSet == env.EMAIL_ADDRESS /= "" /\ env.EMAIL_PASSWORD /= ""

(* C10: send_report_email never raises; with the sender address or the
   sender password unset it returns false and opens no SMTP connection; when
   connect, STARTTLS, login or send throws it returns false; it returns true
   only when the message was handed to the relay and no step threw. *)
C10_SendReturnsFalseOnFailure ==
    trace.send /= "none" =>
        /\ trace.send \in {"true", "false"}
        /\ ~CredentialsSet => (trace.send = "false" /\ trace.smtp = <<>>)
        /\ trace.failing \in {"connect", "starttls", "login", "send_message"}
              => trace.send = "false"
        /\ trace.send = "true" =>
              /\ CredentialsSet
              /\ trace.failing = "none"
              /\ \E i \in 1..Len(trace.smtp) : trace.smtp[i] = "send_message"

(* a send with a credential unset *)
C10_Witness ==
    /\ trace.send = "false"
    /\ ~CredentialsSet
    /\ trace.smtp = <<>>

(* a send whose login throws *)
C10_WitnessTransport ==
    /\ trace.send = "false"
    /\ CredentialsSet
    /\ trace.failing = "login"
    /\ trace.smtp = <<"connect", "starttls", "login", "quit">>

(* a send that succeeds *)
C10_WitnessSent ==
    /\ trace.send = "true"
    /\ trace.smtp = SmtpSteps

(***************************************************************************)
(* Claim-side definitions for text recognition.                            *)
(***************************************************************************)
ImageDone == fn = "extract_text_from_image" /\ pc = "done"

(* the places of the line breaks of a text, with both ends *)
LineBreaks(t) == {0, Len(t) + 1} \cup {i \in 1..Len(t) : t[i] = "\n"}

(* a recognised text with no non-blank line: blanks and line breaks only *)
NoTextRecognized(t) == \A i \in 1..Len(t) : t[i] \in Whitespace

(* C11: extract_text_from_image never returns the empty string; when the
   recognised text has no non-blank line the result is the 'no text found'
   sentinel, otherwise it is the recognised lines, each trimmed, blank lines
   dropped, joined by line breaks. *)
C11_NeverEmptySentinel ==
    ImageDone =>
        /\ fn_out /= <<>>
        /\ fn_in.ok =>
              IF NoTextRecognized(fn_in.text)
              THEN fn_out = NoTextFound
              ELSE fn_out = JoinLines(CleanedLines(split(fn_in.text, "\n", <<>>)))

(* what the code does instead: the sentinel for the empty text only, the
   empty string for a text of blanks and line breaks *)
C11_SentinelForEmptyTextOnly ==
    ImageDone =>
        /\ fn_in.ok /\ fn_in.text = <<>> => fn_out = NoTextFound
        /\ fn_in.ok /\ fn_in.text /= <<>> /\ NoTextRecognized(fn_in.text) => fn_out = <<>>
        /\ fn_in.ok /\ ~NoTextRecognized(fn_in.text) =>
              /\ fn_out /= <<>>
              /\ fn_out[1] \notin Whitespace /\ fn_out[Len(fn_out)] \notin Whitespace
              /\ \A i \in 1..(Len(fn_out) - 1) :
                    fn_out[i] = "\n" => fn_out[i + 1] \notin Whitespace
              /\ SelectSeq(fn_out, LAMBDA c : c \notin Whitespace)
                   = SelectSeq(fn_in.text, LAMBDA c : c \notin Whitespace)
        /\ ~fn_in.ok => fn_out = ImageErrorPrefix \o fn_in.text

(***************************************************************************)
(* Claim-side definitions for configuration and for the stored results.    *)
(***************************************************************************)
(* C12: in every run of the script, the generative model is called only
   when an API key is available to that run (from the environment or typed
   by the user), and SMTP steps are attempted only when the sender address
   and the sender password are both set. *)
C12_MissingConfigurationBlocks ==
    /\ trace.model_calls /= <<>> => trace.api_key /= ""
    /\ (trace /= NoTrace /\ trace.api_key = "") =>
          (env.GOOGLE_API_KEY = "" /\ trace.halted = "no_api_key")
    /\ env.GOOGLE_API_KEY /= "" => trace.api_key \in {"", env.GOOGLE_API_KEY}
    /\ trace.smtp /= <<>> => CredentialsSet

(* the start button pressed in a run that has no key, after a run that had one *)
C12_Witness ==
    /\ trace.button = "analyze"
    /\ trace.api_key = ""
    /\ session.api_key /= ""
    /\ trace.model_calls = <<>>

(* the send button pressed with a valid recipient and a credential unset *)
C12_WitnessSend ==
    /\ trace.button = "send"
    /\ trace.send = "false"
    /\ ~CredentialsSet
    /\ trace.smtp = <<>>

(* the model called with a key typed by the user *)
C12_WitnessTypedKey ==
    /\ env.GOOGLE_API_KEY = ""
    /\ trace.api_key = "manual-key"
    /\ trace.model_calls /= <<>>

AllStored(s) == ResultKeys \subseteq s.has
NoneStored(s) == s.has \cap ResultKeys = {}

(* C13: in every state of a session either none of analysis_result, report,
   requirements and submission_text is stored or all four are; when stored
   they come from one run: the analysis result is an analysis of the stored
   requirements, the submission is one that was submitted, and the report
   is generate_report of the stored analysis result; the results view and
   the share view show content only when the results are stored. *)
C13_StoredResultsConsistent ==
    /\ AllStored(session) \/ NoneStored(session)
    /\ AllStored(session) =>
          /\ \E an \in SessionAnalyzeAnswers :
                analyze_compliance(session.requirements, an)
                    = Returned(session.analysis_result)
          /\ session.submission_text \in SubmissionTexts
          /\ generate_report(session.analysis_result)
                = [raised |-> FALSE, val |-> session.report]
    /\ NoneStored(session) =>
          /\ session.analysis_result = EmptySession.analysis_result
          /\ session.report = EmptySession.report
          /\ session.requirements = EmptySession.requirements
          /\ session.submission_text = EmptySession.submission_text
    /\ trace.results_shown => AllStored(session)
    /\ trace.share_shown => AllStored(session)

(* results stored by a second run whose requirement list differs from the
   first run's: the fallback analysis of three requirements *)
C13_Witness ==
    /\ AllStored(session)
    /\ trace.analysis = "stored"
    /\ Len(session.requirements) = 3
    /\ session.analysis_result = ParseFailureResult(session.requirements)
    /\ trace.share_shown

(* a session with nothing stored after a run that did not complete *)
C13_WitnessNone ==
    /\ NoneStored(session)
    /\ trace.analysis = "error"
    /\ ~trace.results_shown /\ ~trace.share_shown

(* C14: an analysis run that does not complete (a blank requirement or
   submission text, no API key, an empty extracted list, or a step that
   raises, report generation included) leaves analysis_result, report,
   requirements and submission_text as the last successful run left them,
   or absent. *)
C14_IncompleteRunKeepsResults ==
    [][(trace'.button = "analyze" /\ trace'.analysis /= "stored") =>
          StoredResults(session') = StoredResults(session)]_vars

(* report generation raised in a session that holds an earlier run's results *)
C14_Witness ==
    /\ trace.button = "analyze"
    /\ trace.analysis = "error"
    /\ trace.model_calls = <<"extract_requirements", "analyze_compliance">>
    /\ AllStored(session)

(* a blank text in a session that holds an earlier run's results *)
C14_WitnessBlank ==
    /\ trace.button = "analyze"
    /\ trace.analysis = "blank"
    /\ AllStored(session)

(* no API key in a session that holds an earlier run's results *)
C14_WitnessNoKey ==
    /\ trace.button = "analyze"
    /\ trace.halted = "no_api_key"
    /\ AllStored(session)

(* the model answered with an empty list, an earlier run's results stored *)
C14_WitnessEmptyList ==
    /\ trace.button = "analyze"
    /\ trace.analysis = "no_requirements"
    /\ ~trace.extract_failed
    /\ AllStored(session)

(* C15: the requirement list stored in the session is never empty, so in
   every state where the results view computes
   satisfied_requirements/total_requirements, total_requirements >= 1. *)
C15_StoredRequirementsNonEmpty ==
    /\ "requirements" \in session.has => Len(session.requirements) >= 1
    /\ ("analysis_result" \in session.has /\ session.analysis_result.kind = "obj"
          /\ IsNumber(Get(session.analysis_result, K_overall_score, JNum(<<"0">>))))
          => Len(session.requirements) >= 1
    /\ trace.results_shown => Len(session.requirements) >= 1

(* the results view rendered, the percentage computed over two requirements *)
C15_Witness ==
    /\ trace.results_shown
    /\ "requirements" \in session.has
    /\ Len(session.requirements) = 2

====
